---- MODULE Spec2Model ----
(***************************************************************************)
(* Model of script.py: the Overpass failover query, the footprint ->       *)
(* polygon -> metrics -> RoofCandidate mapping, the rank/filter step and   *)
(* the pipeline that main runs over them.                                  *)
(*                                                                         *)
(* Units.  Geodetic coordinates are integer grid steps (lon, lat).  LV95   *)
(* coordinates and lengths are metres, areas m2.  Floats are fixed point:  *)
(* perimeters are kept in decimetres, compactness in thousandths, score in *)
(* tenths (score = 2505.0 is the integer 25050).                           *)
(***************************************************************************)
EXTENDS Integers, Sequences, FiniteSets, TLC

VARIABLES
    pc,               \* where the run is
    min_area, limit,  \* args.min_area, args.limit
    attempts,         \* overpass_query: the requests made so far, with their outcome
    last_exc,         \* overpass_query: last_exc
    data,             \* main: the response overpass_query returned
    error,            \* the exception that ended the run, if any
    idx,              \* main: how many elements the loop has taken
    candidates,       \* main: candidates
    ranked,           \* main: ranked
    el, out,          \* the record given to build_candidate and what came back
    out_rev,          \* SpecGeom: build_candidate of the record wound the other way
    perm_candidates,  \* SpecRank: a permutation of candidates
    perm_ranked       \* SpecRank: rank_and_filter of the permutation

vars == <<pc, min_area, limit, attempts, last_exc, data, error, idx, candidates,
          ranked, el, out, out_rev, perm_candidates, perm_ranked>>

\* Bounds of the model.
MaxVerts == 4
MaxElements == 2
MaxCands == 3

None == [tag |-> "None"]

Abs(n) == IF n < 0 THEN -n ELSE n

RECURSIVE ISqrtIn(_, _, _)
ISqrtIn(n, lo, hi) ==
    IF hi - lo <= 1 THEN lo
    ELSE LET mid == (lo + hi) \div 2
         IN IF mid * mid <= n THEN ISqrtIn(n, mid, hi) ELSE ISqrtIn(n, lo, mid)

\* floor of the square root (math on floats, kept to the model's fixed point)
ISqrt(n) == ISqrtIn(n, 0, n + 1)

Reverse(s) == [i \in 1..Len(s) |-> s[Len(s) + 1 - i]]

(***************************************************************************)
(* Geodetic points.  A point of an Overpass geometry is a dict with the    *)
(* keys "lat" and "lon"; NoLatPoint is a dict that lacks "lat".            *)
(***************************************************************************)
\* the window of grid steps around the centre that footprints are drawn from
Degrees == {0, 1, 2}

GridPoints == [lon : Degrees, lat : Degrees]

NoLatPoint == [lon |-> 0]

Points == GridPoints \cup {NoLatPoint}

HasLonLat(pt) == DOMAIN pt = {"lon", "lat"}

\* WGS84 -> LV95: a grid step of longitude is 6 m of easting, a grid step of
\* latitude 8 m of northing, from the false origin of the projected window.
LV95_E0 == 2760

LV95_N0 == 1250

to_lv95(lon, lat) == <<LV95_E0 + 6 * lon, LV95_N0 + 8 * lat>>

(***************************************************************************)
(* Planar geometry of a coordinate ring c (a sequence of <<x, y>>), as the *)
(* geometry engine sees it.                                                *)
(***************************************************************************)
Cross(o, a, b) == (a[1] - o[1]) * (b[2] - o[2]) - (a[2] - o[2]) * (b[1] - o[1])

\* twice the signed area of ring c (shoelace)
Shoelace2(c) ==
    LET RECURSIVE Sum(_)
        Sum(i) == IF i >= Len(c) THEN 0
                  ELSE c[i][1] * c[i + 1][2] - c[i + 1][1] * c[i][2] + Sum(i + 1)
    IN Sum(1)

Min2(a, b) == IF a < b THEN a ELSE b

Max2(a, b) == IF a > b THEN a ELSE b

OnSeg(w, u, v) ==
    /\ Cross(u, v, w) = 0
    /\ Min2(u[1], v[1]) <= w[1] /\ w[1] <= Max2(u[1], v[1])
    /\ Min2(u[2], v[2]) <= w[2] /\ w[2] <= Max2(u[2], v[2])

Between(w, u, v) == OnSeg(w, u, v) /\ w # u /\ w # v

ProperCross(p1, p2, p3, p4) ==
    /\ Cross(p3, p4, p1) * Cross(p3, p4, p2) < 0
    /\ Cross(p1, p2, p3) * Cross(p1, p2, p4) < 0

Verts(c) == {c[i] : i \in 1..Len(c)}

\* the segments of the ring that are not a repeated point
WalkEdges(c) == {i \in 1..(Len(c) - 1) : c[i] # c[i + 1]}

HasCrossing(c) ==
    \E i, j \in WalkEdges(c) : i < j /\ ProperCross(c[i], c[i + 1], c[j], c[j + 1])

\* the ring's linework, noded at the ring's own vertices
NodedEdges(c) ==
    {e \in SUBSET Verts(c) :
        /\ Cardinality(e) = 2
        /\ \E i \in WalkEdges(c) : \A p \in e : OnSeg(p, c[i], c[i + 1])
        /\ \A u, v \in e : ~ \E w \in Verts(c) : Between(w, u, v)}

IsCycle(c) ==
    LET E == NodedEdges(c)
    IN /\ Cardinality(E) >= 3
       /\ \A v \in Verts(c) : Cardinality({e \in E : v \in e}) = 2

\* poly.is_valid: the shell is a simple closed ring
is_valid(c) ==
    /\ ~ HasCrossing(c)
    /\ IsCycle(c)
    /\ Cardinality(WalkEdges(c)) = Cardinality(NodedEdges(c))

(***************************************************************************)
(* Geometries of the engine.  A Polygon has an exterior ring; the repair   *)
(* of an invalid ring may be a Polygon, a multi-part geometry (no exterior *)
(* attribute) or the lower-dimensional geometry the ring collapses to.     *)
(***************************************************************************)
Polygon(coords) == [kind |-> "Polygon", exterior |-> coords]

\* the simple ring that runs once around the cycle the linework forms
CycleRing(c) ==
    LET V == Verts(c)
        n == Cardinality(V)
        f == CHOOSE g \in [1..n -> V] :
                 /\ \A i, j \in 1..n : g[i] = g[j] => i = j
                 /\ \A i \in 1..n : {g[i], g[(i % n) + 1]} \in NodedEdges(c)
    IN [i \in 1..(n + 1) |-> IF i = n + 1 THEN f[1] ELSE f[i]]

\* make_valid on the shell c of an invalid polygon: polygons are built from
\* the cycles of the noded linework, what is left over collapses to lines.
make_valid(c) ==
    IF HasCrossing(c) THEN [kind |-> "MultiPolygon", exterior |-> <<>>]
    ELSE IF Cardinality(NodedEdges(c)) = 0 THEN [kind |-> "Point", exterior |-> <<>>]
    ELSE IF Cardinality(NodedEdges(c)) < Cardinality(Verts(c))
         THEN [kind |-> "MultiLineString", exterior |-> <<>>]
    ELSE IF IsCycle(c) THEN Polygon(CycleRing(c))
    ELSE [kind |-> "GeometryCollection", exterior |-> <<>>]

is_empty(g) == g.kind = "Empty"

\* a repair whose area is never looked at
NeverZero(g) == FALSE

\* poly.area == 0, in raw (lon, lat) coordinates
area_is_zero(g) ==
    CASE g.kind = "Polygon" -> Shoelace2(g.exterior) = 0
      [] g.kind \in {"MultiPolygon", "GeometryCollection"} -> FALSE
      [] OTHER -> TRUE

has_exterior(g) == g.kind = "Polygon"

Raise(e) == [tag |-> "raise", exc |-> e]

\* An optional list: Python's None, or the list v.
NoList == [some |-> FALSE]

List(v) == [some |-> TRUE, val |-> v]

\* geom is None or a list of points.  The coordinates are read before the try;
\* inside it a ring of fewer than 4 coordinates makes Polygon() raise, which
\* the except turns into None.
polygon_from_geom(geom) ==
    IF ~ geom.some THEN None
    ELSE IF Len(geom.val) < 3 THEN None
    ELSE IF \E i \in 1..Len(geom.val) : ~ HasLonLat(geom.val[i]) THEN Raise("KeyError")
    ELSE LET coords0 == [i \in 1..Len(geom.val) |-> <<geom.val[i].lon, geom.val[i].lat>>]
             coords == IF coords0[1] # coords0[Len(coords0)]
                       THEN Append(coords0, coords0[1]) ELSE coords0
         IN IF Len(coords) < 4 THEN None
            ELSE LET poly == IF is_valid(coords) THEN Polygon(coords)
                             ELSE make_valid(coords)
                 IN IF is_empty(poly) \/ area_is_zero(poly) THEN None
                    ELSE [tag |-> "geometry"] @@ poly

ProjectRing(c) == [i \in 1..Len(c) |-> to_lv95(c[i][1], c[i][2])]

area_m2_in_lv95_signed(ext) == Shoelace2(ProjectRing(ext)) \div 2

area_m2_in_lv95(ext) == Abs(Shoelace2(ProjectRing(ext))) \div 2

\* length of the projected ring, in decimetres
perimeter_m_in_lv95(ext) ==
    LET xys == ProjectRing(ext)
        RECURSIVE Sum(_)
        Sum(i) == IF i >= Len(xys) THEN 0
                  ELSE ISqrt(100 * ((xys[i + 1][1] - xys[i][1]) * (xys[i + 1][1] - xys[i][1])
                                    + (xys[i + 1][2] - xys[i][2]) * (xys[i + 1][2] - xys[i][2])))
                       + Sum(i + 1)
    IN Sum(1)

\* Polsby-Popper 4 pi A / P^2 in thousandths; area in m2, perimeter in dm
calc_compactness(area, perimeter) ==
    IF perimeter = 0 THEN 0
    ELSE (12566 * area * 100) \div (perimeter * perimeter)

\* 0.7 * area + 0.3 * (compact * 10000), in tenths
ScoreSwapped(area_m2, compact) == 3 * area_m2 + 70 * compact

Score(area_m2, compact) == 7 * area_m2 + 30 * compact

\* el.get(k) for a key whose value is a list
GetList(d, k) == IF k \in DOMAIN d THEN List(d[k]) ELSE NoList

\* a or b, for optional lists (None and the empty list are falsy)
Or(a, b) == IF a.some /\ a.val # <<>> THEN a ELSE b

\* The candidate keeps the fields the ranking reads and its identity; name,
\* building, the centroid and the two links are copied or formatted from the
\* record and take no part in any decision.
build_candidate(e) ==
    LET osm_type == e.type
        osm_id == e.id
        geom == Or(GetList(e, "geometry"), GetList(e, "geom"))
        poly == polygon_from_geom(geom)
    IN IF poly = None THEN None
       ELSE IF poly.tag = "raise" THEN poly
       ELSE IF ~ has_exterior(poly) THEN Raise("AttributeError")
       ELSE LET area_m2 == area_m2_in_lv95(poly.exterior)
                perim_m == perimeter_m_in_lv95(poly.exterior)
                compact == calc_compactness(area_m2, perim_m)
                score == Score(area_m2, compact)
            IN [tag |-> "RoofCandidate", osm_type |-> osm_type, osm_id |-> osm_id,
                area_m2 |-> area_m2, compactness |-> compact, score |-> score]

(***************************************************************************)
(* SpecGeom: build_candidate applied to one footprint record and to the    *)
(* same record with its vertex list in the opposite winding.               *)
(***************************************************************************)
VertexLists == UNION {[1..n -> Points] : n \in 0..MaxVerts}

Records ==
    {[type |-> "way", id |-> 1]}
    \cup {[type |-> "way", id |-> 1, geometry |-> g] : g \in VertexLists}

Reversed(e) ==
    IF "geometry" \in DOMAIN e THEN [e EXCEPT !.geometry = Reverse(e.geometry)] ELSE e

InitGeom ==
    /\ pc = "record"
    /\ el \in Records
    /\ out = None
    /\ out_rev = None
    /\ min_area = 0 /\ limit = 0 /\ attempts = <<>> /\ last_exc = None
    /\ data = None /\ error = None /\ idx = 0 /\ candidates = <<>> /\ ranked = <<>>
    /\ perm_candidates = <<>> /\ perm_ranked = <<>>

BuildCandidate ==
    /\ pc = "record"
    /\ out' = build_candidate(el)
    /\ out_rev' = build_candidate(Reversed(el))
    /\ pc' = "built"
    /\ UNCHANGED <<el, min_area, limit, attempts, last_exc, data, error, idx,
                   candidates, ranked, perm_candidates, perm_ranked>>

NextGeom == BuildCandidate

SpecGeom == InitGeom /\ [][NextGeom]_vars

(***************************************************************************)
(* rank_and_filter: filter, stable sort on the key (-area_m2, -score),     *)
(* slice.                                                                  *)
(***************************************************************************)
\* a mis-written key: the score is left out
KeyLessAreaOnly(a, b) == a.area_m2 > b.area_m2

\* (-a.area_m2, -a.score) < (-b.area_m2, -b.score), as Python orders tuples
KeyLess(a, b) ==
    \/ a.area_m2 > b.area_m2
    \/ a.area_m2 = b.area_m2 /\ a.score > b.score

\* x goes before the first entry whose key is greater than its own
Insert(sorted, x) ==
    LET later == {i \in 1..Len(sorted) : KeyLess(x, sorted[i])}
        at == IF later = {} THEN Len(sorted) + 1
              ELSE CHOOSE i \in later : \A j \in later : i <= j
    IN SubSeq(sorted, 1, at - 1) \o <<x>> \o SubSeq(sorted, at, Len(sorted))

RECURSIVE SortFrom(_, _, _)
SortFrom(rows, i, acc) ==
    IF i > Len(rows) THEN acc ELSE SortFrom(rows, i + 1, Insert(acc, rows[i]))

\* rows left as they are
Unsorted(rows) == rows

\* list.sort(key=...): stable
Sort(rows) == SortFrom(rows, 1, <<>>)

\* rows[:limit]
Slice(rows, lim) ==
    LET n == Len(rows)
        stop == IF lim >= 0 THEN Min2(lim, n) ELSE Max2(n + lim, 0)
    IN SubSeq(rows, 1, stop)

Retained(cands, minArea) == SelectSeq(cands, LAMBDA c : c.area_m2 >= minArea)

rank_and_filter(cands, minArea, lim) == Slice(Sort(Retained(cands, minArea)), lim)

(***************************************************************************)
(* SpecRank: rank_and_filter applied to a list of candidates and to a      *)
(* permutation of the same list.                                           *)
(***************************************************************************)
\* (area_m2, compactness in thousandths) of the candidates that are ranked
Measures == {<<50, 800>>, <<80, 200>>, <<200, 200>>, <<200, 800>>}

MinAreas == {80, 100}

Limits(n) == (0 - 1)..n

RoofCandidate(id, area_m2, compact) ==
    [tag |-> "RoofCandidate", osm_type |-> "way", osm_id |-> id,
     area_m2 |-> area_m2, compactness |-> compact, score |-> Score(area_m2, compact)]

CandidateLists ==
    UNION {{[i \in 1..n |-> RoofCandidate(i, m[i][1], m[i][2])] : m \in [1..n -> Measures]}
           : n \in 0..MaxCands}

Permutation(n) == {f \in [1..n -> 1..n] : \A i, j \in 1..n : f[i] = f[j] => i = j}

InitRank ==
    /\ pc = "candidates"
    /\ candidates \in CandidateLists
    /\ \E f \in Permutation(Len(candidates)) :
           perm_candidates = [i \in 1..Len(candidates) |-> candidates[f[i]]]
    /\ min_area \in MinAreas
    /\ limit \in Limits(MaxCands)
    /\ ranked = <<>> /\ perm_ranked = <<>>
    /\ attempts = <<>> /\ last_exc = None /\ data = None /\ error = None
    /\ idx = 0 /\ el = None /\ out = None /\ out_rev = None

RankBoth ==
    /\ pc = "candidates"
    /\ ranked' = rank_and_filter(candidates, min_area, limit)
    /\ perm_ranked' = rank_and_filter(perm_candidates, min_area, limit)
    /\ pc' = "ranked"
    /\ UNCHANGED <<min_area, limit, attempts, last_exc, data, error, idx,
                   candidates, el, out, out_rev, perm_candidates>>

NextRank == RankBoth

SpecRank == InitRank /\ [][NextRank]_vars

(***************************************************************************)
(* Spec: main.  overpass_query walks the endpoint list; the loop maps each *)
(* element of the response; rank_and_filter and the exports follow.        *)
(***************************************************************************)
OVERPASS_ENDPOINTS ==
    <<"overpass-api.de", "overpass.kumi.systems", "overpass.openstreetmap.ru">>

\* what can go wrong inside the try: the post, raise_for_status, r.json()
Failures == {"ConnectionError", "HTTPError", "JSONDecodeError"}

\* a loop that asks the first endpoint again
FirstEndpoint(att) == OVERPASS_ENDPOINTS[1]

\* the for loop's ep, after the requests in att
CurrentEndpoint(att) == OVERPASS_ENDPOINTS[Len(att) + 1]

\* an except clause that keeps the first exception
KeepFirst(last, e) == IF last = None THEN e ELSE last

\* except Exception as e: last_exc = e
Caught(last, e) == e

\* footprints an Overpass response carries
Footprints ==
    { <<[lon |-> 0, lat |-> 0], [lon |-> 2, lat |-> 0], [lon |-> 2, lat |-> 2], [lon |-> 0, lat |-> 2]>>,
      <<[lon |-> 0, lat |-> 0], [lon |-> 0, lat |-> 1], [lon |-> 2, lat |-> 1], [lon |-> 2, lat |-> 0]>>,
      <<[lon |-> 0, lat |-> 0], [lon |-> 2, lat |-> 0]>>,
      <<[lon |-> 0, lat |-> 0], [lon |-> 2, lat |-> 2], [lon |-> 2, lat |-> 0], [lon |-> 0, lat |-> 2]>>,
      <<[lon |-> 0, lat |-> 0], [lon |-> 2, lat |-> 0], NoLatPoint>> }

\* element i of a response: a way with a geometry, or a relation without one
Element(i, g) ==
    IF g.some THEN [type |-> "way", id |-> i, geometry |-> g.val]
    ELSE [type |-> "relation", id |-> i]

ElementLists ==
    UNION {{[i \in 1..n |-> Element(i, g[i])] :
               g \in [1..n -> {List(f) : f \in Footprints} \cup {NoList}]}
           : n \in 0..MaxElements}

\* the JSON documents an endpoint answers with
Responses(ep) ==
    {[generator |-> ep]} \cup {[generator |-> ep, elements |-> e] : e \in ElementLists}

\* data.get("elements", [])
Elements(d) == IF "elements" \in DOMAIN d THEN d.elements ELSE <<>>

\* candidates.append(c), twice
CollectTwice(cands, c) == IF c # None THEN cands \o <<c, c>> ELSE cands

\* if c is not None: candidates.append(c)
Collect(cands, c) == IF c # None THEN Append(cands, c) ELSE cands

Init ==
    /\ pc = "query"
    /\ min_area \in MinAreas
    /\ limit \in Limits(MaxElements)
    /\ attempts = <<>> /\ last_exc = None /\ data = None /\ error = None
    /\ idx = 0 /\ candidates = <<>> /\ ranked = <<>>
    /\ el = None /\ out = None /\ out_rev = None
    /\ perm_candidates = <<>> /\ perm_ranked = <<>>

\* one turn of the loop in overpass_query whose request fails
EndpointFails ==
    /\ pc = "query"
    /\ Len(attempts) < Len(OVERPASS_ENDPOINTS)
    /\ \E e \in Failures :
        LET ep == CurrentEndpoint(attempts)
        IN /\ attempts' = Append(attempts, [ep |-> ep, outcome |-> e])
           /\ last_exc' = Caught(last_exc, [ep |-> ep, exc |-> e])
    /\ UNCHANGED <<pc, min_area, limit, data, error, idx, candidates, ranked, el, out,
                   out_rev, perm_candidates, perm_ranked>>

\* one turn of the loop in overpass_query whose request succeeds: return r.json()
EndpointAnswers ==
    /\ pc = "query"
    /\ Len(attempts) < Len(OVERPASS_ENDPOINTS)
    /\ LET ep == CurrentEndpoint(attempts)
       IN /\ attempts' = Append(attempts, [ep |-> ep, outcome |-> "ok"])
          /\ data' \in Responses(ep)
    /\ pc' = "map"
    /\ UNCHANGED <<min_area, limit, last_exc, error, idx, candidates, ranked, el, out,
                   out_rev, perm_candidates, perm_ranked>>

\* the loop is over: raise RuntimeError(f"Overpass nicht erreichbar: {last_exc}")
AllEndpointsFailed ==
    /\ pc = "query"
    /\ Len(attempts) = Len(OVERPASS_ENDPOINTS)
    /\ error' = [exc |-> "RuntimeError", cause |-> last_exc]
    /\ pc' = "failed"
    /\ UNCHANGED <<min_area, limit, attempts, last_exc, data, idx, candidates, ranked,
                   el, out, out_rev, perm_candidates, perm_ranked>>

\* one turn of the loop in main
MapElement ==
    /\ pc = "map"
    /\ idx < Len(Elements(data))
    /\ LET e == Elements(data)[idx + 1]
           c == build_candidate(e)
       IN /\ el' = e
          /\ idx' = idx + 1
          /\ out' = c
          /\ IF c.tag = "raise"
             THEN /\ error' = c
                  /\ pc' = "crashed"
                  /\ UNCHANGED candidates
             ELSE /\ candidates' = Collect(candidates, c)
                  /\ UNCHANGED <<error, pc>>
    /\ UNCHANGED <<min_area, limit, attempts, last_exc, data, ranked, out_rev,
                   perm_candidates, perm_ranked>>

\* ranked = rank_and_filter(candidates, args.min_area, args.limit)
Rank ==
    /\ pc = "map"
    /\ idx = Len(Elements(data))
    /\ ranked' = rank_and_filter(candidates, min_area, limit)
    /\ pc' = "export"
    /\ UNCHANGED <<min_area, limit, attempts, last_exc, data, error, idx, candidates,
                   el, out, out_rev, perm_candidates, perm_ranked>>

\* export_csv and export_geojson write ranked out
Export ==
    /\ pc = "export"
    /\ pc' = "done"
    /\ UNCHANGED <<min_area, limit, attempts, last_exc, data, error, idx, candidates,
                   ranked, el, out, out_rev, perm_candidates, perm_ranked>>

Next ==
    \/ EndpointFails
    \/ EndpointAnswers
    \/ AllEndpointsFailed
    \/ MapElement
    \/ Rank
    \/ Export

Spec == Init /\ [][Next]_vars

(***************************************************************************)
(* Properties.                                                             *)
(***************************************************************************)
Last(s) == s[Len(s)]

Count(x, s) == Cardinality({i \in 1..Len(s) : s[i] = x})

IsCandidate(c) == c.tag = "RoofCandidate"

\* the vertex list build_candidate reads from record e
GeomOf(e) == Or(GetList(e, "geometry"), GetList(e, "geom"))

\* every point of the record's vertex list has both coordinates
WellFormed(e) ==
    /\ GeomOf(e).some
    /\ \A i \in 1..Len(GeomOf(e).val) : HasLonLat(GeomOf(e).val[i])

\* the (lon, lat) ring of a well-formed record, closed
RawRing(e) ==
    LET g == GeomOf(e).val
        c == [i \in 1..Len(g) |-> <<g[i].lon, g[i].lat>>]
    IN IF c # <<>> /\ c[1] # c[Len(c)] THEN Append(c, c[1]) ELSE c

Collinear(c) == \A i, j, k \in 1..Len(c) : Cross(c[i], c[j], c[k]) = 0

\* C1: one call of overpass_query asks the endpoints in list order, each at most
\* once, and stops at the first that succeeds: the requests made are a prefix of
\* the list, only the last of them can have succeeded, and the response returned
\* is the one of that last endpoint.
C1_FailoverInOrder ==
    /\ Len(attempts) <= Len(OVERPASS_ENDPOINTS)
    /\ \A i \in 1..Len(attempts) : attempts[i].ep = OVERPASS_ENDPOINTS[i]
    /\ \A i \in 1..(Len(attempts) - 1) : attempts[i].outcome \in Failures
    /\ data # None =>
          /\ attempts # <<>>
          /\ Last(attempts).outcome = "ok"
          /\ data.generator = Last(attempts).ep
    /\ (attempts # <<>> /\ Last(attempts).outcome = "ok") => (pc # "query" /\ data # None)

C1_ThirdEndpointAnswers ==
    /\ Len(attempts) = 3
    /\ attempts[1].outcome \in Failures
    /\ attempts[2].outcome \in Failures
    /\ attempts[3].outcome = "ok"
    /\ data.generator = OVERPASS_ENDPOINTS[3]
    /\ pc = "done"

\* C2: when every endpoint fails, overpass_query ends in one RuntimeError whose
\* cause is the failure of the last endpoint of the list, after one request to
\* each endpoint, and no response is returned.
C2_AllFailRaisesLast ==
    /\ pc = "failed" =>
          /\ Len(attempts) = Len(OVERPASS_ENDPOINTS)
          /\ \A i \in 1..Len(attempts) :
                 attempts[i].ep = OVERPASS_ENDPOINTS[i] /\ attempts[i].outcome \in Failures
          /\ error = [exc |-> "RuntimeError",
                      cause |-> [ep |-> Last(OVERPASS_ENDPOINTS), exc |-> Last(attempts).outcome]]
          /\ data = None
    /\ (\A i \in 1..Len(attempts) : attempts[i].outcome \in Failures) =>
          (data = None /\ pc \in {"query", "failed"})

C2_AllFailedDifferently ==
    /\ pc = "failed"
    /\ attempts[1].outcome # attempts[3].outcome
    /\ error.cause.exc = attempts[3].outcome

\* C3: rank_and_filter returns only input candidates with area_m2 >= min_area,
\* none more often than the input has it, in the order of the two keys: of two
\* consecutive results the first has the larger area, or the same area and a
\* score that is not smaller.
C3_FilteredAndOrdered ==
    pc = "ranked" =>
        /\ \A i \in 1..Len(ranked) :
               /\ ranked[i].area_m2 >= min_area
               /\ Count(ranked[i], candidates) >= 1
               /\ Count(ranked[i], ranked) <= Count(ranked[i], candidates)
        /\ \A i \in 1..(Len(ranked) - 1) :
               \/ ranked[i].area_m2 > ranked[i + 1].area_m2
               \/ /\ ranked[i].area_m2 = ranked[i + 1].area_m2
                  /\ ranked[i].score >= ranked[i + 1].score

C3_TieOnAreaOrderedByScore ==
    /\ pc = "ranked"
    /\ Len(candidates) = 3
    /\ Len(ranked) = 2
    /\ ranked[1].area_m2 = ranked[2].area_m2
    /\ ranked[1].score > ranked[2].score
    /\ ranked[1].osm_id > ranked[2].osm_id

\* C4: rank_and_filter returns the first `limit` entries of the sorted retained
\* candidates: never more than `limit` entries (none when limit is not positive),
\* min(limit, number retained) of them, and no retained candidate that is left
\* out ranks strictly before one that is returned.
C4_AtMostLimit ==
    pc = "ranked" =>
        LET rows == Retained(candidates, min_area)
        IN /\ Len(ranked) <= Max2(limit, 0)
           /\ Len(ranked) = Max2(0, Min2(limit, Len(rows)))
           /\ \A i \in 1..Len(rows) : \A j \in 1..Len(ranked) :
                  Count(rows[i], ranked) = 0 => ~ KeyLess(rows[i], ranked[j])

Keys(s) == [i \in 1..Len(s) |-> <<s[i].area_m2, s[i].score>>]

NoFullTies(s) ==
    \A i, j \in 1..Len(s) :
        (s[i].area_m2 = s[j].area_m2 /\ s[i].score = s[j].score) => i = j

\* C5 as claimed: any two permutations of the same candidates are ranked into
\* the same sequence of candidates (stated here for the limits that are not
\* negative, where it already fails).
C5_SameForEveryOrder == (pc = "ranked" /\ limit >= 0) => ranked = perm_ranked

\* C5 as amended: any two permutations of the same candidates are ranked into
\* the same sequence of (area_m2, score) pairs, and into the same sequence of
\* candidates when no two retained candidates are equal in both area_m2 and score.
C5_SameKeysForEveryOrder ==
    pc = "ranked" =>
        /\ Keys(ranked) = Keys(perm_ranked)
        /\ NoFullTies(Retained(candidates, min_area)) => ranked = perm_ranked

C5_TwoLargestOfPermuted ==
    /\ pc = "ranked"
    /\ candidates # perm_candidates
    /\ min_area = 100 /\ limit = 2
    /\ {candidates[i].area_m2 : i \in 1..Len(candidates)} = {50, 200}
    /\ Len(ranked) = 2
    /\ ranked[1].area_m2 = 200 /\ ranked[2].area_m2 = 200
    /\ ranked[1].score > ranked[2].score
    /\ ranked = perm_ranked
    /\ candidates[1].score < candidates[2].score
    /\ perm_candidates[1].score > perm_candidates[2].score

\* C6: for every footprint record build_candidate returns a candidate or None;
\* no exception leaves it.
C6_NeverRaises == pc = "built" => out.tag \in {"RoofCandidate", "None"}

\* C7: a record whose vertex list is missing, empty or shorter than 3, or whose
\* ring encloses no area (its points on one line, or its linework without a
\* cycle), yields None; a candidate only comes from a Polygon of at least 3
\* vertices whose raw area is strictly positive.
C7_DegenerateRejected ==
    pc = "built" =>
        /\ (~ GeomOf(el).some \/ Len(GeomOf(el).val) < 3) => out = None
        /\ (WellFormed(el) /\ Collinear(RawRing(el))) => out = None
        /\ ( /\ WellFormed(el)
             /\ ~ HasCrossing(RawRing(el))
             /\ Cardinality(NodedEdges(RawRing(el))) < Cardinality(Verts(RawRing(el))) )
           => out = None
        /\ IsCandidate(out) =>
              /\ WellFormed(el)
              /\ Len(GeomOf(el).val) >= 3
              /\ polygon_from_geom(GeomOf(el)).kind = "Polygon"
              /\ Abs(Shoelace2(polygon_from_geom(GeomOf(el)).exterior)) > 0
              /\ out.area_m2 > 0

C7_ZeroAreaRingDropped ==
    /\ pc = "built"
    /\ WellFormed(el)
    /\ Len(GeomOf(el).val) = 3
    /\ Cardinality(Verts(RawRing(el))) = 3
    /\ Collinear(RawRing(el))
    /\ out = None

\* C8: the score of every candidate is 0.7 * area_m2 + 0.3 * (compactness * 10000)
\* over its own fields (in tenths: 7 * area_m2 + 30 * compactness-in-thousandths),
\* so equal area_m2 and compactness give equal score; 150 and 0.8 give 2505.
C8_ScoreFormula ==
    /\ Score(150, 800) = 25050
    /\ (pc = "built" /\ IsCandidate(out)) =>
          /\ out.score = 7 * out.area_m2 + 30 * out.compactness
          /\ (IsCandidate(out_rev) /\ out_rev.area_m2 = out.area_m2
                /\ out_rev.compactness = out.compactness) => out_rev.score = out.score

C8_SquareScored ==
    /\ pc = "built"
    /\ IsCandidate(out)
    /\ out.area_m2 = 192
    /\ out.compactness = 769
    /\ out.score = 24414

\* C9: the area of a valid polygon is the same for both windings of its ring,
\* and never negative.
C9_AreaWindingInvariant ==
    (pc = "built" /\ IsCandidate(out)) =>
        /\ IsCandidate(out_rev)
        /\ out_rev.area_m2 = out.area_m2
        /\ out.area_m2 >= 0

C9_ClockwiseRing ==
    /\ pc = "built"
    /\ IsCandidate(out)
    /\ Shoelace2(RawRing(el)) < 0
    /\ Shoelace2(RawRing(Reversed(el))) > 0
    /\ out_rev.area_m2 = out.area_m2
    /\ Len(GeomOf(el).val) = 4

\* C10: in main every element is taken once and gives no or one candidate: the
\* candidates are never more than the elements taken, each comes from an element
\* already taken, they stand in element order, rank_and_filter runs only once
\* all elements are taken, and ranked holds only collected candidates.
C10_OneCandidatePerRecord ==
    /\ idx <= Len(Elements(data))
    /\ Len(candidates) <= idx
    /\ \A i \in 1..Len(candidates) :
           \E j \in 1..idx :
               /\ candidates[i].osm_id = Elements(data)[j].id
               /\ candidates[i].osm_type = Elements(data)[j].type
    /\ \A i, j \in 1..Len(candidates) : i < j => candidates[i].osm_id < candidates[j].osm_id
    /\ pc \in {"export", "done"} => idx = Len(Elements(data))
    /\ pc \notin {"export", "done"} => ranked = <<>>
    /\ \A i \in 1..Len(ranked) : Count(ranked[i], candidates) = 1

C10_OneOfTwoRecordsKept ==
    /\ pc = "done"
    /\ Len(Elements(data)) = 2
    /\ idx = 2
    /\ Len(candidates) = 1
    /\ candidates[1].osm_id = 2
    /\ Len(ranked) = 1

====
